---- MODULE Spec2Model ----
(***************************************************************************)
(* The quote converters of tools/smartquotes.py (straight -> curly) and    *)
(* tools/straightquotes.py (curly -> straight): the line scanner of        *)
(* convert_quotes, the inline-code splitter of convert_prose_line, the     *)
(* substitution rules, and the command line of main.                       *)
(*                                                                         *)
(* A text is a sequence of characters; a character is a one-element        *)
(* string; the backtick and the four typographic quotes are written by     *)
(* their code point.                                                       *)
(***************************************************************************)
EXTENDS Integers, Sequences, FiniteSets, TLC

\* ------------------------------------------------------------ characters

DQ == "\""
SQ == "'"
BT == "U+0060"
NL == "\n"
DASH == "-"
SP == " "
LEFT_DOUBLE == "U+201C"
RIGHT_DOUBLE == "U+201D"
LEFT_SINGLE == "U+2018"
RIGHT_SINGLE == "U+2019"

\* The characters of the model that the regex class \w matches.
WordChars == {"a"}

\* The characters of the model that the regex class \s matches (a line never
\* holds a line feed: convert_quotes has split on it).
SpaceChars == {SP}

StraightQuotes == {DQ, SQ}
CurlyQuotes == {LEFT_DOUBLE, RIGHT_DOUBLE, LEFT_SINGLE, RIGHT_SINGLE}

\* ------------------------------------------------------------ text helpers

\* s[p .. ] starts with the sequence t
StartsWithAt(s, p, t) ==
    /\ p + Len(t) - 1 <= Len(s)
    /\ \A k \in 1..Len(t) : s[p + k - 1] = t[k]

\* The least position q > p with s[q] = c, or 0 when there is none.
NextAfter(s, p, c) ==
    IF \E q \in (p+1)..Len(s) : s[q] = c
    THEN CHOOSE q \in (p+1)..Len(s) :
            s[q] = c /\ \A j \in (p+1)..(q-1) : s[j] # c
    ELSE 0

\* str.split('\n')
RECURSIVE split(_)
split(s) ==
    LET k == NextAfter(s, 0, NL)
    IN  IF k = 0 THEN <<s>>
        ELSE <<SubSeq(s, 1, k - 1)>> \o split(SubSeq(s, k + 1, Len(s)))

\* A variant of join that ends every line with a line feed, the last included
RECURSIVE join_trailing(_)
join_trailing(parts) ==
    IF parts = <<>> THEN <<>>
    ELSE Head(parts) \o <<NL>> \o join_trailing(Tail(parts))

\* '\n'.join(parts)
RECURSIVE join(_)
join(parts) ==
    IF parts = <<>> THEN <<>>
    ELSE IF Len(parts) = 1 THEN parts[1]
    ELSE parts[1] \o <<NL>> \o join(Tail(parts))

\* ''.join(parts)
RECURSIVE concat(_)
concat(parts) ==
    IF parts = <<>> THEN <<>> ELSE Head(parts) \o concat(Tail(parts))

\* ------------------------------------------------------------ substitution rules

\* A variant of sub_double with the greedy pattern "(.*)": the first double
\* quote is paired with the last one
sub_double_greedy(t, p) ==
    LET D == {k \in p..Len(t) : t[k] = DQ}
    IN  IF Cardinality(D) >= 2
        THEN [t EXCEPT ![CHOOSE x \in D : \A y \in D : x <= y] = LEFT_DOUBLE,
                       ![CHOOSE x \in D : \A y \in D : x >= y] = RIGHT_DOUBLE]
        ELSE t

\* re.sub(r'"([^"]*)"', LEFT_DOUBLE + r'\1' + RIGHT_DOUBLE, text), scanning from p
RECURSIVE sub_double(_, _)
sub_double(t, p) ==
    IF p > Len(t) THEN t
    ELSE LET q == NextAfter(t, p, DQ)
         IN  IF t[p] = DQ /\ q # 0
             THEN sub_double([t EXCEPT ![p] = LEFT_DOUBLE, ![q] = RIGHT_DOUBLE], q + 1)
             ELSE sub_double(t, p + 1)

\* re.sub(r"(\w)'(\w)", r'\1' + RIGHT_SINGLE + r'\2', text), scanning from p: a
\* match consumes both word characters, and the scan resumes after the second.
RECURSIVE sub_contraction(_, _)
sub_contraction(t, p) ==
    IF p > Len(t) THEN t
    ELSE IF /\ p + 2 <= Len(t)
            /\ t[p] \in WordChars
            /\ t[p + 1] = SQ
            /\ t[p + 2] \in WordChars
         THEN sub_contraction([t EXCEPT ![p + 1] = RIGHT_SINGLE], p + 3)
         ELSE sub_contraction(t, p + 1)

\* Where the group (^|\s) tried at p leaves the scan: p itself by the empty
\* match of ^ (start of the text only), p + 1 by one whitespace character.
\* The regex tries ^ first and falls back to \s when the rest fails after ^.
AfterEdge(t, p) ==
    (IF p = 1 THEN {p} ELSE {}) \cup
    (IF p <= Len(t) /\ t[p] \in SpaceChars THEN {p + 1} ELSE {})

\* 'w' stands at a, and (\s|$) matches after it
IsNPattern(t, a) ==
    /\ a + 2 <= Len(t)
    /\ t[a] = SQ
    /\ t[a + 1] \in WordChars
    /\ t[a + 2] = SQ
    /\ \/ a + 3 <= Len(t) /\ t[a + 3] \in SpaceChars
       \/ a + 2 = Len(t)

\* re.sub(r"(^|\s)'(\w)'(\s|$)", ...), scanning from p: a match consumes the
\* whitespace on both sides, and the scan resumes after the trailing one.
RECURSIVE sub_n_style(_, _)
sub_n_style(t, p) ==
    IF p > Len(t) THEN t
    ELSE LET starts == {a \in AfterEdge(t, p) : IsNPattern(t, a)}
         IN  IF starts # {}
             THEN LET a == CHOOSE x \in starts : \A y \in starts : x <= y
                      e == IF a + 3 <= Len(t) /\ t[a + 3] \in SpaceChars
                           THEN a + 4 ELSE a + 3
                  IN  sub_n_style([t EXCEPT ![a] = RIGHT_SINGLE,
                                            ![a + 2] = RIGHT_SINGLE], e)
             ELSE sub_n_style(t, p + 1)

\* 'w stands at a
IsWordStart(t, a) ==
    /\ a + 1 <= Len(t)
    /\ t[a] = SQ
    /\ t[a + 1] \in WordChars

\* re.sub(r"(^|\s)'(\w)", r'\1' + RIGHT_SINGLE + r'\2', text), scanning from p
RECURSIVE sub_word_start(_, _)
sub_word_start(t, p) ==
    IF p > Len(t) THEN t
    ELSE LET starts == {a \in AfterEdge(t, p) : IsWordStart(t, a)}
         IN  IF starts # {}
             THEN LET a == CHOOSE x \in starts : \A y \in starts : x <= y
                  IN  sub_word_start([t EXCEPT ![a] = RIGHT_SINGLE], a + 2)
             ELSE sub_word_start(t, p + 1)

\* smartquotes.convert_quotes_in_text: the four rules, in the source's order
convert_quotes_in_text(t) ==
    sub_word_start(sub_n_style(sub_contraction(sub_double(t, 1), 1), 1), 1)

\* str.replace(old, new) for single characters
replace(t, old, new) == [k \in 1..Len(t) |-> IF t[k] = old THEN new ELSE t[k]]

\* A variant of straighten_quotes without the replacement of U+2019
straighten_quotes_no_right_single(t) ==
    replace(replace(replace(t, LEFT_DOUBLE, DQ), RIGHT_DOUBLE, DQ), LEFT_SINGLE, SQ)

\* straightquotes.straighten_quotes
straighten_quotes(t) ==
    replace(replace(replace(replace(t, LEFT_DOUBLE, DQ), RIGHT_DOUBLE, DQ),
                    LEFT_SINGLE, SQ), RIGHT_SINGLE, SQ)

\* ------------------------------------------------------------ inline code

\* re.split(r'(`[^`]+`)', line): the texts between the matches, with the
\* matches themselves (the group) between them.  p is the scan position and
\* start the first character of the text part being collected.
RECURSIVE re_split(_, _, _)
re_split(line, p, start) ==
    IF p > Len(line) THEN <<SubSeq(line, start, Len(line))>>
    ELSE LET q == NextAfter(line, p, BT)
         IN  IF line[p] = BT /\ q > p + 1
             THEN <<SubSeq(line, start, p - 1), SubSeq(line, p, q)>>
                  \o re_split(line, q + 1, q + 1)
             ELSE re_split(line, p + 1, start)

\* part.startswith('`') and part.endswith('`')
IsInlineCode(part) == part # <<>> /\ part[1] = BT /\ part[Len(part)] = BT

\* The two programs
Programs == {"smartquotes", "straightquotes"}

\* The transformation each program applies to a prose part
convert_part(prog, part) ==
    IF prog = "smartquotes" THEN convert_quotes_in_text(part)
    ELSE straighten_quotes(part)

\* A variant of convert_prose_line that does not split the inline code off
convert_prose_line_flat(prog, l) == convert_part(prog, l)

\* convert_prose_line of either program
convert_prose_line(prog, line) ==
    LET parts == re_split(line, 1, 1)
    IN  concat([k \in 1..Len(parts) |->
                  IF IsInlineCode(parts[k]) THEN parts[k]
                  ELSE convert_part(prog, parts[k])])

\* ------------------------------------------------------------ state

VARIABLES
    program,            \* which of the two scripts runs
    text,               \* the argument of convert_quotes
    lines,              \* text.split('\n')
    i,                  \* the index of enumerate(lines), from 0
    result,             \* the lines converted so far
    in_code_block,
    in_front_matter,
    front_matter_count,
    output,             \* the value convert_quotes returned
    pc,                 \* where the run stands
    stage,              \* "first" call, or "second" call on the first's output
    source,             \* the document the first call was given
    first_program,      \* the program of the first call
    argv,               \* sys.argv
    filepath,           \* main's filepath: a str or a Path
    check_mode,
    inplace,
    disk,               \* the files that exist, with their contents
    written,            \* the paths write_text was called on
    stdout,
    stderr,
    exit_status

scan_vars == <<lines, i, result, in_code_block, in_front_matter, front_matter_count>>
call_vars == <<program, text, output, stage, source, first_program>>
main_vars == <<argv, filepath, check_mode, inplace, disk, written, stdout, stderr,
               exit_status>>
vars == <<scan_vars, call_vars, main_vars, pc>>

\* ------------------------------------------------------------ inputs

MaxDocLines == 4
MaxApostropheLen == 7
MaxQuoteLen == 6
MaxCurlyLen == 5
MaxMixedLen == 3
MaxMainLines == 2
MaxArgs == 3

FrontMatterMark == <<DASH, DASH, DASH>>
FenceMark == <<BT, BT, BT>>

\* All texts over the alphabet A of at most n characters
Strs(A, n) == UNION {[1..k -> A] : k \in 0..n}

\* The lines the documents of several lines are made of: the two markers, a
\* fence with an info string, and prose with straight and with curly quotes.
DocLines ==
    { FrontMatterMark,
      FenceMark,
      FenceMark \o <<"a", SQ, "a", RIGHT_SINGLE>>,
      <<SQ, "a">>,
      <<"a", SQ, "a", RIGHT_SINGLE>> }

DocTexts(n) == {join(ls) : ls \in UNION {[1..k -> DocLines] : k \in 1..n}}

AllChars == {DQ, SQ, BT, NL, DASH, SP, "a",
             LEFT_DOUBLE, RIGHT_DOUBLE, LEFT_SINGLE, RIGHT_SINGLE}

Inputs ==
    DocTexts(MaxDocLines)
    \cup Strs({SQ, "a", SP}, MaxApostropheLen)
    \cup Strs({DQ, BT, "a"}, MaxQuoteLen)
    \cup Strs({BT, "a", SQ, RIGHT_SINGLE}, MaxCurlyLen)
    \cup Strs(AllChars, MaxMixedLen)

\* ------------------------------------------------------------ convert_quotes

NoPath == [kind |-> "none", name |-> ""]

MainIdle ==
    /\ argv = <<>>
    /\ filepath = NoPath
    /\ check_mode = FALSE
    /\ inplace = FALSE
    /\ disk = <<>>
    /\ written = {}
    /\ stdout = <<>>
    /\ stderr = <<>>
    /\ exit_status = 0

ScanIdle ==
    /\ lines = <<>>
    /\ i = 0
    /\ result = <<>>
    /\ in_code_block = FALSE
    /\ in_front_matter = FALSE
    /\ front_matter_count = 0

\* A test or a caller hands a document to convert_quotes of one program.
Init ==
    /\ program \in Programs
    /\ text \in Inputs
    /\ source = text
    /\ first_program = program
    /\ stage = "first"
    /\ output = <<>>
    /\ pc = "call"
    /\ ScanIdle
    /\ MainIdle

\* The line the loop is at
line == lines[i + 1]

\* convert_quotes: the split and the initial flags
Enter ==
    /\ pc = "call"
    /\ lines' = split(text)
    /\ result' = <<>>
    /\ in_code_block' = FALSE
    /\ in_front_matter' = FALSE
    /\ front_matter_count' = 0
    /\ i' = 0
    /\ pc' = "loop"
    /\ UNCHANGED <<call_vars, main_vars>>

InLoop == pc = "loop" /\ i < Len(lines)

OpensFrontMatter == i = 0 /\ line = FrontMatterMark
ClosesFrontMatter == in_front_matter /\ line = FrontMatterMark
IsFence == StartsWithAt(line, 1, FenceMark)

\* A variant of Protected that forgets the front matter
Protected_code_only == in_code_block

\* if in_code_block or in_front_matter
Protected == in_code_block \/ in_front_matter

\* if i == 0 and line == '---'
FrontMatterOpen ==
    /\ InLoop
    /\ OpensFrontMatter
    /\ in_front_matter' = TRUE
    /\ front_matter_count' = 1
    /\ result' = Append(result, line)
    /\ i' = i + 1
    /\ UNCHANGED <<lines, in_code_block, call_vars, main_vars, pc>>

\* elif in_front_matter and line == '---'
FrontMatterClose ==
    /\ InLoop
    /\ ~OpensFrontMatter
    /\ ClosesFrontMatter
    /\ front_matter_count' = front_matter_count + 1
    /\ in_front_matter' = IF front_matter_count + 1 = 2 THEN FALSE ELSE in_front_matter
    /\ result' = Append(result, line)
    /\ i' = i + 1
    /\ UNCHANGED <<lines, in_code_block, call_vars, main_vars, pc>>

\* if line.startswith(three backticks)
FenceLine ==
    /\ InLoop
    /\ ~OpensFrontMatter
    /\ ~ClosesFrontMatter
    /\ IsFence
    /\ in_code_block' = ~in_code_block
    /\ result' = Append(result, line)
    /\ i' = i + 1
    /\ UNCHANGED <<lines, in_front_matter, front_matter_count, call_vars, main_vars, pc>>

\* the protected line is appended as it is
SkipLine ==
    /\ InLoop
    /\ ~OpensFrontMatter
    /\ ~ClosesFrontMatter
    /\ ~IsFence
    /\ Protected
    /\ result' = Append(result, line)
    /\ i' = i + 1
    /\ UNCHANGED <<lines, in_code_block, in_front_matter, front_matter_count,
                   call_vars, main_vars, pc>>

\* result.append(convert_prose_line(line))
ProseLine ==
    /\ InLoop
    /\ ~OpensFrontMatter
    /\ ~ClosesFrontMatter
    /\ ~IsFence
    /\ ~Protected
    /\ result' = Append(result, convert_prose_line(program, line))
    /\ i' = i + 1
    /\ UNCHANGED <<lines, in_code_block, in_front_matter, front_matter_count,
                   call_vars, main_vars, pc>>

\* return '\n'.join(result)
Return ==
    /\ pc = "loop"
    /\ i = Len(lines)
    /\ output' = join(result)
    /\ pc' = "done"
    /\ UNCHANGED <<scan_vars, program, text, stage, source, first_program, main_vars>>

\* The caller hands the result of the first call to a second call, of either
\* program (curl(curl(x)), straighten(curl(x)), ...).
Pipe ==
    /\ pc = "done"
    /\ stage = "first"
    /\ stage' = "second"
    /\ text' = output
    /\ \E p \in Programs : program' = p
    /\ pc' = "call"
    /\ UNCHANGED <<scan_vars, output, source, first_program, main_vars>>

Scan ==
    \/ FrontMatterOpen
    \/ FrontMatterClose
    \/ FenceLine
    \/ SkipLine
    \/ ProseLine

Next ==
    \/ Enter
    \/ Scan
    \/ Return
    \/ Pipe

Spec == Init /\ [][Next]_vars

\* ------------------------------------------------------------ main

ProgName == "argv0"
Flags == {"--check", "--inplace"}
StdinNames == {"-", "/dev/stdin"}
Args == Flags \cup StdinNames \cup {"post.md", "missing.md"}

\* sys.argv: the script's name, then at most MaxArgs arguments
Argvs == {<<ProgName>> \o a : a \in UNION {[1..k -> Args] : k \in 0..MaxArgs}}

MainTexts == DocTexts(MaxMainLines)

Range(f) == {f[k] : k \in DOMAIN f}

\* a.startswith('--'), on the arguments of the model
IsFlag(a) == a \in Flags

\* [a for a in sys.argv[1:] if not a.startswith('--')]
file_args == SelectSeq(Tail(argv), LAMBDA a : ~IsFlag(a))

Message(kind, body) == [kind |-> kind, body |-> body]

\* One of the two scripts is started on a command line; the document is on
\* standard input and in the file post.md, and missing.md does not exist.
InitMain ==
    /\ program \in Programs
    /\ first_program = program
    /\ source \in MainTexts
    /\ argv \in Argvs
    /\ disk = [n \in {"post.md"} |-> source]
    /\ text = <<>>
    /\ output = <<>>
    /\ stage = "first"
    /\ filepath = NoPath
    /\ check_mode = FALSE
    /\ inplace = FALSE
    /\ written = {}
    /\ stdout = <<>>
    /\ stderr = <<>>
    /\ exit_status = 0
    /\ ScanIdle
    /\ pc = "main"

\* sys.exit(status), after one message on one of the two streams
Exit(status, out, err) ==
    /\ exit_status' = status
    /\ stdout' = out
    /\ stderr' = err
    /\ pc' = "exit"

\* if len(sys.argv) < 2: print(__doc__); sys.exit(1)
Usage ==
    /\ pc = "main"
    /\ Len(argv) < 2
    /\ Exit(1, Append(stdout, Message("doc", <<>>)), stderr)
    /\ UNCHANGED <<scan_vars, call_vars, argv, filepath, check_mode, inplace, disk,
                   written>>

\* check_mode = '--check' in sys.argv; inplace = '--inplace' in sys.argv
ParseFlags ==
    /\ pc = "main"
    /\ Len(argv) >= 2
    /\ check_mode' = ("--check" \in Range(argv))
    /\ inplace' = ("--inplace" \in Range(argv))
    /\ pc' = "args"
    /\ UNCHANGED <<scan_vars, call_vars, argv, filepath, disk, written, stdout, stderr,
                   exit_status>>

\* if not file_args: error, sys.exit(1)
NoFile ==
    /\ pc = "args"
    /\ file_args = <<>>
    /\ Exit(1, stdout, Append(stderr, Message("no file specified", <<>>)))
    /\ UNCHANGED <<scan_vars, call_vars, argv, filepath, check_mode, inplace, disk,
                   written>>

\* filepath = file_args[0]
TakeFile ==
    /\ pc = "args"
    /\ file_args # <<>>
    /\ filepath' = [kind |-> "str", name |-> file_args[1]]
    /\ pc' = "read"
    /\ UNCHANGED <<scan_vars, call_vars, argv, check_mode, inplace, disk, written,
                   stdout, stderr, exit_status>>

\* original = sys.stdin.read(); filepath = '<stdin>'
ReadStdin ==
    /\ pc = "read"
    /\ filepath.name \in StdinNames
    /\ text' = source
    /\ filepath' = [kind |-> "str", name |-> "<stdin>"]
    /\ pc' = "call"
    /\ UNCHANGED <<scan_vars, program, output, stage, source, first_program, argv,
                   check_mode, inplace, disk, written, stdout, stderr, exit_status>>

\* filepath = Path(filepath); if not filepath.exists(): error, sys.exit(1)
NotFound ==
    /\ pc = "read"
    /\ filepath.name \notin StdinNames
    /\ filepath.name \notin DOMAIN disk
    /\ filepath' = [kind |-> "Path", name |-> filepath.name]
    /\ Exit(1, stdout, Append(stderr, Message("file not found", <<>>)))
    /\ UNCHANGED <<scan_vars, call_vars, argv, check_mode, inplace, disk, written>>

\* original = filepath.read_text(encoding='utf-8')
ReadFile ==
    /\ pc = "read"
    /\ filepath.name \notin StdinNames
    /\ filepath.name \in DOMAIN disk
    /\ filepath' = [kind |-> "Path", name |-> filepath.name]
    /\ text' = disk[filepath.name]
    /\ pc' = "call"
    /\ UNCHANGED <<scan_vars, program, output, stage, source, first_program, argv,
                   check_mode, inplace, disk, written, stdout, stderr, exit_status>>

\* if check_mode: if original != converted: "needs conversion", sys.exit(1)
CheckNeedsConversion ==
    /\ pc = "done"
    /\ check_mode
    /\ text # output
    /\ Exit(1, Append(stdout, Message("needs conversion", <<>>)), stderr)
    /\ UNCHANGED <<scan_vars, call_vars, argv, filepath, check_mode, inplace, disk,
                   written>>

\* if check_mode: else: "ok", sys.exit(0)
CheckOk ==
    /\ pc = "done"
    /\ check_mode
    /\ text = output
    /\ Exit(0, Append(stdout, Message("ok", <<>>)), stderr)
    /\ UNCHANGED <<scan_vars, call_vars, argv, filepath, check_mode, inplace, disk,
                   written>>

\* elif inplace: if isinstance(filepath, str): error, sys.exit(1)
InplaceStdin ==
    /\ pc = "done"
    /\ ~check_mode
    /\ inplace
    /\ filepath.kind = "str"
    /\ Exit(1, stdout, Append(stderr, Message("cannot use --inplace with stdin", <<>>)))
    /\ UNCHANGED <<scan_vars, call_vars, argv, filepath, check_mode, inplace, disk,
                   written>>

\* elif inplace: filepath.write_text(converted); print("Converted: ...")
InplaceWrite ==
    /\ pc = "done"
    /\ ~check_mode
    /\ inplace
    /\ filepath.kind # "str"
    /\ disk' = [disk EXCEPT ![filepath.name] = output]
    /\ written' = written \cup {filepath.name}
    /\ Exit(0, Append(stdout, Message("converted", <<>>)), stderr)
    /\ UNCHANGED <<scan_vars, call_vars, argv, filepath, check_mode, inplace>>

\* else: print(converted)
PrintConverted ==
    /\ pc = "done"
    /\ ~check_mode
    /\ ~inplace
    /\ Exit(0, Append(stdout, Message("text", output)), stderr)
    /\ UNCHANGED <<scan_vars, call_vars, argv, filepath, check_mode, inplace, disk,
                   written>>

NextMain ==
    \/ Usage
    \/ ParseFlags
    \/ NoFile
    \/ TakeFile
    \/ ReadStdin
    \/ NotFound
    \/ ReadFile
    \/ Enter
    \/ Scan
    \/ Return
    \/ CheckNeedsConversion
    \/ CheckOk
    \/ InplaceStdin
    \/ InplaceWrite
    \/ PrintConverted

SpecMain == InitMain /\ [][NextMain]_vars

\* ------------------------------------------------------------ vocabulary of the claims

Min(a, b) == IF a <= b THEN a ELSE b
Max(a, b) == IF a <= b THEN b ELSE a

\* The lines of the call's argument and of its result
InLines == split(text)
OutLines == split(output)

\* The line k of ls starts with three backticks
IsFenceAt(ls, k) == StartsWithAt(ls[k], 1, FenceMark)

\* The line k of ls lies after an opening fence line and before the next fence
\* line: an odd number of fence lines stand before it.
InsideFence(ls, k) ==
    /\ ~IsFenceAt(ls, k)
    /\ Cardinality({j \in 1..(k - 1) : IsFenceAt(ls, j)}) % 2 = 1

\* The last line of the front matter: the first line after the first that is
\* exactly ---, the last line of the document when there is none, and 0 when
\* the document does not open with ---.
FrontMatterEnd(ls) ==
    IF ls[1] # FrontMatterMark THEN 0
    ELSE IF \E k \in 2..Len(ls) : ls[k] = FrontMatterMark
         THEN CHOOSE k \in 2..Len(ls) :
                 /\ ls[k] = FrontMatterMark
                 /\ \A j \in 2..(k - 1) : ls[j] # FrontMatterMark
         ELSE Len(ls)

FrontMatterClosed(ls) ==
    FrontMatterEnd(ls) >= 2 /\ ls[FrontMatterEnd(ls)] = FrontMatterMark

\* A prose line: outside the front matter, no fence line, not between fences
IsProseLine(ls, k) ==
    /\ k > FrontMatterEnd(ls)
    /\ ~IsFenceAt(ls, k)
    /\ ~InsideFence(ls, k)

\* The inline-code spans of a line, as <<first, last>> positions: the matches
\* of backtick, one or more non-backticks, backtick, taken from left to right
\* without overlap.
RECURSIVE InlineSpansFrom(_, _)
InlineSpansFrom(l, p) ==
    IF p > Len(l) THEN {}
    ELSE LET q == NextAfter(l, p, BT)
         IN  IF l[p] = BT /\ q > p + 1
             THEN {<<p, q>>} \cup InlineSpansFrom(l, q + 1)
             ELSE InlineSpansFrom(l, p + 1)

InlineSpans(l) == InlineSpansFrom(l, 1)

\* Every substring of a line that is a backtick, non-backticks, a backtick
BacktickSubstrings(l) ==
    {s \in (1..Len(l)) \X (1..Len(l)) :
        /\ s[2] > s[1] + 1
        /\ l[s[1]] = BT
        /\ l[s[2]] = BT
        /\ \A r \in (s[1] + 1)..(s[2] - 1) : l[r] # BT}

\* Position x of a line lies outside the spans
Outside(spans, x) == \A s \in spans : x < s[1] \/ x > s[2]

\* The positions of the prose-text span of position x (x outside the spans)
TextSpan(l, spans, x) ==
    {y \in 1..Len(l) : \A r \in Min(x, y)..Max(x, y) : Outside(spans, r)}

\* The quote characters a program rewrites
SourceQuotes(prog) ==
    IF prog = "smartquotes" THEN StraightQuotes ELSE CurlyQuotes

\* The result has the lines of the argument, each of the same length
SameShape ==
    /\ Len(OutLines) = Len(InLines)
    /\ \A k \in 1..Len(InLines) : Len(OutLines[k]) = Len(InLines[k])

\* ------------------------------------------------------------ claims

\* C1 (as stated): in both directions every fence line, every line between an
\* opening fence and the next fence (or the end), and every substring of a
\* prose line that is a backtick, non-backticks, a backtick is identical in
\* the output.
C1_EveryBacktickSubstringKept ==
    pc = "done" =>
        /\ SameShape
        /\ \A k \in 1..Len(InLines) :
              /\ (IsFenceAt(InLines, k) \/ InsideFence(InLines, k))
                    => OutLines[k] = InLines[k]
              /\ IsProseLine(InLines, k) =>
                    \A s \in BacktickSubstrings(InLines[k]) :
                        SubSeq(OutLines[k], s[1], s[2]) = SubSeq(InLines[k], s[1], s[2])

\* C1 (amended): in both directions every fence line, every line between an
\* opening fence and the next fence (or the end), and every inline-code span
\* of a prose line, the spans being the matches of backtick, non-backticks,
\* backtick taken from left to right without overlap, is identical in the
\* output.
C1_CodeKept ==
    pc = "done" =>
        /\ SameShape
        /\ \A k \in 1..Len(InLines) :
              /\ (IsFenceAt(InLines, k) \/ InsideFence(InLines, k))
                    => OutLines[k] = InLines[k]
              /\ IsProseLine(InLines, k) =>
                    \A s \in InlineSpans(InLines[k]) :
                        SubSeq(OutLines[k], s[1], s[2]) = SubSeq(InLines[k], s[1], s[2])

\* A finished call whose result differs from its argument, on a document with
\* a prose line that holds a quote of the program's source set inside an
\* inline-code span.
C1_Witness ==
    /\ pc = "done"
    /\ output # text
    /\ \E k \in 1..Len(InLines) :
          /\ IsProseLine(InLines, k)
          /\ \E s \in InlineSpans(InLines[k]) : \E r \in s[1]..s[2] :
                InLines[k][r] \in SourceQuotes(program)

\* C2: curling is idempotent: a second curl of a curled text returns it as it is.
C2_CurlIdempotent ==
    (/\ pc = "done"
     /\ stage = "second"
     /\ first_program = "smartquotes"
     /\ program = "smartquotes") => output = text

\* C3: in both directions, when the first line is exactly ---, every line after
\* it up to and including the next line that is exactly --- (or up to the end
\* of the document) is identical in the output.
C3_FrontMatterKept ==
    (pc = "done" /\ InLines[1] = FrontMatterMark) =>
        /\ Len(OutLines) = Len(InLines)
        /\ \A k \in 2..FrontMatterEnd(InLines) : OutLines[k] = InLines[k]

\* A finished call on a document with a closed front matter that holds a line
\* the program would rewrite as prose.
C3_Witness ==
    /\ pc = "done"
    /\ FrontMatterClosed(InLines)
    /\ \E k \in 2..(FrontMatterEnd(InLines) - 1) :
          convert_prose_line(program, InLines[k]) # InLines[k]

\* C4: curl pairs the straight double quotes of each prose-text span from left
\* to right: the odd ones that have a partner in the span become U+201C, the
\* even ones U+201D, an odd last one stays straight, and quotes of different
\* spans are never paired.
C4_DoubleQuotesPairedPerSpan ==
    (pc = "done" /\ program = "smartquotes") =>
        /\ SameShape
        /\ \A k \in 1..Len(InLines) : IsProseLine(InLines, k) =>
              LET l == InLines[k]
                  o == OutLines[k]
                  spans == InlineSpans(l)
              IN  \A x \in 1..Len(l) : (l[x] = DQ /\ Outside(spans, x)) =>
                     LET D == {y \in TextSpan(l, spans, x) : l[y] = DQ}
                         r == Cardinality({y \in D : y <= x})
                     IN  o[x] = IF r % 2 = 0 THEN RIGHT_DOUBLE
                                ELSE IF r < Cardinality(D) THEN LEFT_DOUBLE
                                ELSE DQ

\* A finished curl of a line with two prose-text spans, one holding a pair of
\* straight double quotes and the other a lone one.
C4_Witness ==
    /\ pc = "done"
    /\ program = "smartquotes"
    /\ \E k \in 1..Len(InLines) :
          /\ IsProseLine(InLines, k)
          /\ LET l == InLines[k]
                 spans == InlineSpans(l)
             IN  \E x, y \in 1..Len(l) :
                    /\ l[x] = DQ /\ Outside(spans, x)
                    /\ l[y] = DQ /\ Outside(spans, y)
                    /\ y \notin TextSpan(l, spans, x)
                    /\ Cardinality({z \in TextSpan(l, spans, x) : l[z] = DQ}) >= 2

\* C5: after curl, every straight single quote of a prose-text span with a word
\* character immediately before it and immediately after it has become U+2019,
\* however many there are and however close together.
C5_EveryMidWordApostropheCurled ==
    (pc = "done" /\ program = "smartquotes") =>
        /\ SameShape
        /\ \A k \in 1..Len(InLines) : IsProseLine(InLines, k) =>
              LET l == InLines[k]
                  o == OutLines[k]
                  spans == InlineSpans(l)
              IN  \A x \in 2..(Len(l) - 1) :
                     (/\ l[x] = SQ
                      /\ \A r \in (x - 1)..(x + 1) : Outside(spans, r)
                      /\ l[x - 1] \in WordChars
                      /\ l[x + 1] \in WordChars) => o[x] = RIGHT_SINGLE

\* C6: in both programs, when --inplace is among the arguments and the file
\* argument is - or /dev/stdin, the run ends with a message on the error
\* stream and a non-zero exit status and writes no file, whatever the other
\* flags.
C6_InplaceWithStdinFails ==
    (/\ pc = "exit"
     /\ "--inplace" \in Range(argv)
     /\ file_args # <<>>
     /\ file_args[1] \in StdinNames) =>
        /\ exit_status # 0
        /\ stderr # <<>>
        /\ written = {}

\* C7: the zones are mutually exclusive and the closing --- returns the scanner
\* to prose: the scanner is never in front matter and in a code block at once,
\* right after the closing --- it is in neither, and the lines after it up to
\* the next fence line are transformed as prose.
C7_ZonesExclusive ==
    /\ ~(in_front_matter /\ in_code_block)
    /\ (/\ pc = "loop"
        /\ i >= 2
        /\ FrontMatterClosed(lines)
        /\ FrontMatterEnd(lines) = i) => (~in_front_matter /\ ~in_code_block)
    /\ (pc = "done" /\ FrontMatterClosed(InLines)) =>
          /\ Len(OutLines) = Len(InLines)
          /\ \A k \in (FrontMatterEnd(InLines) + 1)..Len(InLines) :
                (\A j \in (FrontMatterEnd(InLines) + 1)..k : ~IsFenceAt(InLines, j))
                    => OutLines[k] = convert_prose_line(program, InLines[k])

\* C8: after curl, every occurrence in a prose-text span of straight single
\* quote, one word character, straight single quote, whose outer neighbour on
\* each side is whitespace or the edge of the span, has both quotes turned
\* into U+2019, however many occurrences the span holds.
C8_EveryNStylePairCurled ==
    (pc = "done" /\ program = "smartquotes") =>
        /\ SameShape
        /\ \A k \in 1..Len(InLines) : IsProseLine(InLines, k) =>
              LET l == InLines[k]
                  o == OutLines[k]
                  spans == InlineSpans(l)
              IN  \A a \in 1..(Len(l) - 2) :
                     (/\ l[a] = SQ
                      /\ l[a + 1] \in WordChars
                      /\ l[a + 2] = SQ
                      /\ \A r \in a..(a + 2) : Outside(spans, r)
                      /\ \/ a = 1
                         \/ ~Outside(spans, a - 1)
                         \/ l[a - 1] \in SpaceChars
                      /\ \/ a + 2 = Len(l)
                         \/ ~Outside(spans, a + 3)
                         \/ l[a + 3] \in SpaceChars)
                        => (o[a] = RIGHT_SINGLE /\ o[a + 2] = RIGHT_SINGLE)

\* C9: in both directions the output has the lines of the input, in the same
\* order and each of the same length, and a line differs from its input line
\* only where the input holds a quote of the program's source set.
C9_OnlySourceQuotesChange ==
    pc = "done" =>
        /\ SameShape
        /\ \A k \in 1..Len(InLines) : \A x \in 1..Len(InLines[k]) :
              OutLines[k][x] # InLines[k][x]
                  => InLines[k][x] \in SourceQuotes(program)

\* A finished call on a document of several lines that changed one of them.
C9_Witness ==
    /\ pc = "done"
    /\ Len(InLines) >= 2
    /\ \E k \in 1..Len(InLines) : OutLines[k] # InLines[k]

\* Without any of the four curly quotes
StraightOnly(t) == \A k \in 1..Len(t) : t[k] \notin CurlyQuotes

\* C10: for every text without curly quotes, straightening the curled text
\* gives the text back.
C10_StraightenUndoesCurl ==
    (/\ pc = "done"
     /\ stage = "second"
     /\ first_program = "smartquotes"
     /\ program = "straightquotes"
     /\ StraightOnly(source)) => output = source

\* A text without curly quotes that curl changed and straighten restored.
C10_Witness ==
    /\ pc = "done"
    /\ stage = "second"
    /\ first_program = "smartquotes"
    /\ program = "straightquotes"
    /\ StraightOnly(source)
    /\ text # source
    /\ output = source

====
